---- MODULE Spec2Model ----
(***************************************************************************)
(* A model of go-ruler (ruler.go): a Ruler holds an ordered slice of       *)
(* rules {Comparator, Path, Value}; Test evaluates them against a nested   *)
(* map[string]interface{} document.                                        *)
(*                                                                         *)
(* Go values of type interface{} are records [kind, v]: kind is the name   *)
(* of the dynamic type as reflect.TypeOf(x).String() prints it ("nil" for  *)
(* the nil interface), v the value.  Text (paths, map keys, string values) *)
(* is a sequence of one-character strings, so that splitting, parsing and  *)
(* matching are computed character by character.                           *)
(*                                                                         *)
(* A call's outcome is a record [b, err, panic]: the returned boolean, the *)
(* returned error (NoErr for nil) and whether the call panicked instead of *)
(* returning.                                                              *)
(***************************************************************************)
EXTENDS Integers, Sequences, FiniteSets, TLC

VARIABLES rules, call, ret, returned

vars == <<rules, call, ret, returned>>

----------------------------------------------------------------------------
(* Bounds of the model *)

MaxRules == 2
MaxStrLen == 2
MaxPathLen == 5
MaxNum == 2

----------------------------------------------------------------------------
(* The comparator constants of ruler.go (iota) *)

gt == 2
gte == 3
lt == 4
lte == 5

InequalityOps == {gt, gte, lt, lte}

Comparators ==
    {"eq", "neq", "gt", "gte", "lt", "lte", "exists", "nexists",
     "regex", "matches", "contains", "ncontains"}

(* The comparator tokens a rule can carry: the twelve known ones, the      *)
(* empty token that Ruler.Rule writes, and an unknown one.                 *)
ComparatorTokens == Comparators \cup {"", "between"}

----------------------------------------------------------------------------
(* Go values *)

IntKinds == {"int8", "int16", "int32", "int64", "int"}
UintKinds == {"uint8", "uint16", "uint32", "uint64", "uint"}
FloatKinds == {"float32", "float64"}
NumKinds == IntKinds \cup UintKinds \cup FloatKinds

Nil == [kind |-> "nil", v |-> 0]
Num(k, n) == [kind |-> k, v |-> n]
Bool(n) == [kind |-> "bool", v |-> n]
Str(s) == [kind |-> "string", v |-> s]
Slice == [kind |-> "slice", v |-> 0]
Map(m) == [kind |-> "map", v |-> m]

IsNil(x) == x.kind = "nil"

(* reflect.Type.Comparable: maps and slices are not comparable *)
Comparable(k) == k \notin {"map", "slice"}

(* a type test that lets integers of one signedness meet across widths *)
SameTypeAcrossWidths(a, b) ==
    \/ a.kind = b.kind
    \/ {a.kind, b.kind} \subseteq IntKinds
    \/ {a.kind, b.kind} \subseteq UintKinds

(* reflect.TypeOf(a) == reflect.TypeOf(b) *)
SameType(a, b) == a.kind = b.kind

(* a == b on two interface{} values: different dynamic types are unequal,  *)
(* equal types compare their values, and a non-comparable type panics.     *)
InterfaceEqPanics(a, b) == SameType(a, b) /\ ~Comparable(a.kind)
(* an equality that compares numbers by value across kinds *)
InterfaceEqLoose(a, b) ==
    IF SameType(a, b) THEN a.v = b.v
    ELSE {a.kind, b.kind} \subseteq NumKinds /\ a.v = b.v

InterfaceEq(a, b) == IF SameType(a, b) THEN a.v = b.v ELSE FALSE

----------------------------------------------------------------------------
(* Outcomes *)

NoErr == [msg |-> "nil", arg |-> <<>>]
Err(m) == [msg |-> m, arg |-> <<>>]
ErrMissingProperty(path) == [msg |-> "did not find property (%s) on map", arg |-> path]
ErrUnknownComparator == Err("unknown comparator %s")
ErrTypeMismatch == Err("Value types are mismatched, cannot compare values")
ErrInvalidType == Err("Invalid type for inequality comparison")
ErrExpectedNotString == Err("expected value not actually a string, bailing")
ErrActualNotString == Err("actual value not actually a string, bailing")
ErrBadRegexp == Err("regexp is bad, bailing")

Ret(b, e) == [b |-> b, err |-> e, panic |-> FALSE]
Panic == [b |-> FALSE, err |-> NoErr, panic |-> TRUE]
NoRet == Ret(FALSE, NoErr)

----------------------------------------------------------------------------
(* Text *)

RECURSIVE SeqsUpTo(_, _)
SeqsUpTo(S, n) ==
    IF n = 0 THEN {<<>>}
    ELSE LET shorter == SeqsUpTo(S, n - 1)
         IN  shorter \cup {Append(s, c) : s \in {t \in shorter : Len(t) = n - 1}, c \in S}

(* strings.Split(path, "."): the segments between the dots, empty ones     *)
(* included; a text without a dot is its own single segment.               *)
RECURSIVE SplitFrom(_, _, _, _)
SplitFrom(s, i, cur, acc) ==
    IF i > Len(s) THEN Append(acc, cur)
    ELSE IF s[i] = "." THEN SplitFrom(s, i + 1, <<>>, Append(acc, cur))
    ELSE SplitFrom(s, i + 1, Append(cur, s[i]), acc)

Split(s) == SplitFrom(s, 1, <<>>, <<>>)

----------------------------------------------------------------------------
(* pluck *)

(* m[k] on a Go map: the nil interface when the key is missing *)
Lookup(m, k) == IF k \in DOMAIN m THEN m[k] ELSE Nil

RECURSIVE pluckLoop(_, _, _)
pluckLoop(prev, parts, i) ==
    IF i <= Len(parts) - 1
    THEN LET cp == parts[i]
         IN  IF IsNil(Lookup(prev, cp)) THEN Nil
             ELSE IF Lookup(prev, cp).kind # "map" THEN Nil
             ELSE pluckLoop(Lookup(prev, cp).v, parts, i + 1)
    ELSE Lookup(prev, parts[Len(parts)])

(* a pluck that hands back a non-mapping met at the first segment *)
pluckKeepsFirstLeaf(o, path) ==
    LET parts == Split(path)
    IN  IF Len(parts) = 1 /\ ~IsNil(Lookup(o, parts[1])) THEN Lookup(o, parts[1])
        ELSE IF Len(parts) > 1 /\ ~IsNil(Lookup(o, parts[1]))
        THEN IF Lookup(o, parts[1]).kind # "map" THEN Lookup(o, parts[1])
             ELSE pluckLoop(Lookup(o, parts[1]).v, parts, 2)
        ELSE Nil

pluck(o, path) ==
    LET parts == Split(path)
    IN  IF Len(parts) = 1 /\ ~IsNil(Lookup(o, parts[1])) THEN Lookup(o, parts[1])
        ELSE IF Len(parts) > 1 /\ ~IsNil(Lookup(o, parts[1]))
        THEN IF Lookup(o, parts[1]).kind # "map" THEN Nil
             ELSE pluckLoop(Lookup(o, parts[1]).v, parts, 2)
        ELSE Nil

----------------------------------------------------------------------------
(* strconv.ParseFloat on texts made of decimal digits and '.': the text    *)
(* parses when it holds at least one digit, at most one '.', and nothing   *)
(* else; its value is Mantissa / 10^FracDigits.                            *)

Digits == {"0", "1", "2", "3", "4", "5", "6", "7", "8", "9"}

DigitVal(c) ==
    CASE c = "0" -> 0 [] c = "1" -> 1 [] c = "2" -> 2 [] c = "3" -> 3
      [] c = "4" -> 4 [] c = "5" -> 5 [] c = "6" -> 6 [] c = "7" -> 7
      [] c = "8" -> 8 [] c = "9" -> 9

CountOf(s, C) == Cardinality({i \in 1..Len(s) : s[i] \in C})

ParseFloatOK(s) ==
    /\ \A i \in 1..Len(s) : s[i] \in Digits \cup {"."}
    /\ CountOf(s, Digits) >= 1
    /\ CountOf(s, {"."}) <= 1

RECURSIVE Mantissa(_, _, _)
Mantissa(s, i, acc) ==
    IF i > Len(s) THEN acc
    ELSE IF s[i] = "." THEN Mantissa(s, i + 1, acc)
    ELSE Mantissa(s, i + 1, 10 * acc + DigitVal(s[i]))

FracDigits(s) ==
    IF \E i \in 1..Len(s) : s[i] = "."
    THEN Len(s) - (CHOOSE i \in 1..Len(s) : s[i] = ".")
    ELSE 0

RECURSIVE Pow10(_)
Pow10(n) == IF n = 0 THEN 1 ELSE 10 * Pow10(n - 1)

ParseFloat(s) ==
    [ok |-> ParseFloatOK(s),
     m |-> IF ParseFloatOK(s) THEN Mantissa(s, 1, 0) ELSE 0,
     f |-> IF ParseFloatOK(s) THEN FracDigits(s) ELSE 0]

(* the sign of x - y for two parsed numbers: -1, 0 or 1 *)
FloatCmp(x, y) ==
    LET l == x.m * Pow10(y.f)
        r == y.m * Pow10(x.f)
    IN  IF l < r THEN -1 ELSE IF l > r THEN 1 ELSE 0

----------------------------------------------------------------------------
(* regexp.Compile and Regexp.MatchString on patterns made of literals,     *)
(* '.', '(' and ')': the pattern compiles when its parentheses balance; a  *)
(* group only groups, so the pattern matches when its atoms, in order,     *)
(* match some contiguous part of the text ('.' matching any character).    *)

RECURSIVE ParensBalance(_, _, _)
ParensBalance(p, i, depth) ==
    IF i > Len(p) THEN depth = 0
    ELSE IF p[i] = "(" THEN ParensBalance(p, i + 1, depth + 1)
    ELSE IF p[i] = ")" THEN depth > 0 /\ ParensBalance(p, i + 1, depth - 1)
    ELSE ParensBalance(p, i + 1, depth)

Compiles(p) == ParensBalance(p, 1, 0)

Atoms(p) == SelectSeq(p, LAMBDA c : c \notin {"(", ")"})

MatchString(p, text) ==
    LET as == Atoms(p)
    IN  \E off \in 0..Len(text) :
            /\ off + Len(as) <= Len(text)
            /\ \A i \in 1..Len(as) : as[i] = "." \/ as[i] = text[off + i]

regexp(actual, expected) ==
    IF expected.kind # "string" THEN Ret(FALSE, ErrExpectedNotString)
    ELSE IF actual.kind # "string" THEN Ret(FALSE, ErrActualNotString)
    ELSE IF ~Compiles(expected.v) THEN Ret(FALSE, ErrBadRegexp)
    ELSE Ret(MatchString(expected.v, actual.v), NoErr)

----------------------------------------------------------------------------
(* The inequality engine *)

(* the switch on op that closes each compare function *)
OpSwitch(op, c) ==
    CASE op = gt -> c > 0
      [] op = gte -> c >= 0
      [] op = lt -> c < 0
      [] op = lte -> c <= 0
      [] OTHER -> FALSE

IntCmp(x, y) == IF x < y THEN -1 ELSE IF x > y THEN 1 ELSE 0

(* actual.(uint64): the assertion panics unless the dynamic type is uint64 *)
compareUint(op, actual, expected) ==
    IF actual.kind # "uint64" \/ expected.kind # "uint64" THEN Panic
    ELSE Ret(OpSwitch(op, IntCmp(actual.v, expected.v)), NoErr)

compareInt(op, actual, expected) ==
    IF actual.kind # "int64" \/ expected.kind # "int64" THEN Panic
    ELSE Ret(OpSwitch(op, IntCmp(actual.v, expected.v)), NoErr)

(* float values are finite numbers; NaN and the infinities are left out *)
compareFloat(op, actual, expected) ==
    IF actual.kind # "float64" \/ expected.kind # "float64" THEN Panic
    ELSE Ret(OpSwitch(op, IntCmp(actual.v, expected.v)), NoErr)

(* a compareStr that does not look at the second parse error *)
compareStrOneCheck(op, actual, expected) ==
    IF actual.kind # "string" \/ expected.kind # "string" THEN Panic
    ELSE LET actualFloat == ParseFloat(actual.v)
             expectedFloat == ParseFloat(expected.v)
         IN  IF ~actualFloat.ok THEN Ret(FALSE, NoErr)
             ELSE Ret(OpSwitch(op, FloatCmp(actualFloat, expectedFloat)), NoErr)

compareStr(op, actual, expected) ==
    IF actual.kind # "string" \/ expected.kind # "string" THEN Panic
    ELSE LET actualFloat == ParseFloat(actual.v)
             expectedFloat == ParseFloat(expected.v)
         IN  IF ~actualFloat.ok THEN Ret(FALSE, NoErr)
             ELSE IF ~expectedFloat.ok THEN Ret(FALSE, NoErr)
             ELSE Ret(OpSwitch(op, FloatCmp(actualFloat, expectedFloat)), NoErr)

(* reflect.TypeOf(nil) is the nil Type, on which String() panics *)
inequality(op, actual, expected) ==
    IF ~SameType(actual, expected) THEN Ret(FALSE, ErrTypeMismatch)
    ELSE IF IsNil(actual) THEN Panic
    ELSE LET t == actual.kind
         IN  CASE t \in UintKinds -> compareUint(op, actual, expected)
               [] t \in IntKinds -> compareInt(op, actual, expected)
               [] t \in FloatKinds -> compareFloat(op, actual, expected)
               [] t = "string" -> compareStr(op, actual, expected)
               [] OTHER -> Ret(FALSE, ErrInvalidType)

----------------------------------------------------------------------------
(* The comparator dispatcher *)

compareExists(actual) == Ret(~IsNil(actual), NoErr)

compareNexists(actual) == Ret(IsNil(actual), NoErr)

(* an ncontains that negates before it looks at the error *)
compareNcontainsNegatesFirst(actual, expected) ==
    LET r == regexp(actual, expected)
    IN  Ret(~r.b, r.err)

compareNcontains(actual, expected) ==
    LET r == regexp(actual, expected)
    IN  IF r.err # NoErr THEN Ret(FALSE, r.err)
        ELSE Ret(~r.b, r.err)

compare(f, actual) ==
    LET expected == f.Value
        c == f.Comparator
    IN  CASE c = "eq" ->
               IF InterfaceEqPanics(actual, expected) THEN Panic
               ELSE Ret(InterfaceEq(actual, expected), NoErr)
          [] c = "neq" ->
               IF InterfaceEqPanics(actual, expected) THEN Panic
               ELSE Ret(~InterfaceEq(actual, expected), NoErr)
          [] c = "gt" -> inequality(gt, actual, expected)
          [] c = "gte" -> inequality(gte, actual, expected)
          [] c = "lt" -> inequality(lt, actual, expected)
          [] c = "lte" -> inequality(lte, actual, expected)
          [] c = "exists" -> compareExists(actual)
          [] c = "nexists" -> compareNexists(actual)
          [] c \in {"regex", "contains", "matches"} -> regexp(actual, expected)
          [] c = "ncontains" -> compareNcontains(actual, expected)
          [] OTHER -> Ret(FALSE, ErrUnknownComparator)

----------------------------------------------------------------------------
(* Ruler.Test *)

(* !a.Comparable() || !e.Comparable() on the types of the actual and the   *)
(* expected value: "no" when the test is true, "yes" when it is false.     *)
(* reflect.TypeOf of a nil f.Value is the nil Type, on which Comparable()  *)
(* panics; it is only called when the actual value's type is comparable.   *)
(* a test that looks at the actual value's type only *)
operandsComparableActualOnly(val, expected) ==
    IF ~Comparable(val.kind) THEN "no" ELSE "yes"

operandsComparable(val, expected) ==
    IF ~Comparable(val.kind) THEN "no"
    ELSE IF IsNil(expected) THEN "panic"
    ELSE IF ~Comparable(expected.kind) THEN "no"
    ELSE "yes"

(* a Test without the exists/nexists branch *)
testAbsentAlwaysFails(f, val) == Ret(FALSE, ErrMissingProperty(f.Path))

(* the two branches taken when pluck found nothing *)
testAbsent(f, val) ==
    IF f.Comparator = "exists" \/ f.Comparator = "nexists"
    THEN compare(f, val)
    ELSE Ret(FALSE, ErrMissingProperty(f.Path))

(* a loop that ends on false *)
testDoneFalse == Ret(FALSE, NoErr)

(* the return after the loop *)
testDone == Ret(TRUE, NoErr)

(* the loop over r.rules, from rule i on *)
RECURSIVE TestFrom(_, _, _)
TestFrom(rs, o, i) ==
    IF i > Len(rs) THEN testDone
    ELSE LET f == rs[i]
             val == pluck(o, f.Path)
             cmp == operandsComparable(val, f.Value)
         IN  IF ~IsNil(val)
             THEN IF cmp = "panic" THEN Panic
                  ELSE IF cmp = "no" THEN Ret(FALSE, NoErr)
                  ELSE LET r == compare(f, val)
                       IN  IF r.panic THEN Panic
                           ELSE IF r.err # NoErr THEN Ret(FALSE, r.err)
                           ELSE IF ~r.b THEN Ret(FALSE, NoErr)
                           ELSE TestFrom(rs, o, i + 1)
             ELSE testAbsent(f, val)

TestResult(rs, o) == TestFrom(rs, o, 1)

----------------------------------------------------------------------------
(* Inputs *)

EmptyMap == [k \in {} |-> Nil]

TextChars == {"1", "9", ".", "("}
Texts == SeqsUpTo(TextChars, MaxStrLen)

NumVals == 1..MaxNum

Values ==
    {Nil, Slice, Map(EmptyMap)}
        \cup {Num(k, n) : k \in NumKinds, n \in NumVals}
        \cup {Bool(n) : n \in 0..1}
        \cup {Str(s) : s \in Texts}

(* documents for pluck: up to three levels of nesting over the keys a, b *)
KeyA == <<"a">>
KeyB == <<"b">>
PathChars == {"a", "b", "."}
Paths == SeqsUpTo(PathChars, MaxPathLen)

MapsOver(K, V) == UNION {[S -> V] : S \in SUBSET K}

Leaves == {Nil, Num("int64", 1), Slice}
Inner == MapsOver({KeyA, KeyB}, Leaves)
Middle == MapsOver({KeyB}, Leaves \cup {Map(m) : m \in Inner})
Docs ==
    {m \in MapsOver({KeyA, KeyB}, Leaves \cup {Map(d) : d \in Middle}) :
        KeyB \in DOMAIN m => m[KeyB] \in Leaves}

(* rules and documents for Test *)
PathAB == <<"a", ".", "b">>
TestPaths == {KeyA, PathAB}
TestValues == {Num("int64", 1), Slice}
Rules == [Comparator : ComparatorTokens, Path : TestPaths, Value : TestValues]
RuleSeqs == SeqsUpTo(Rules, MaxRules)

TestDocs ==
    {EmptyMap,
     KeyA :> Num("int64", 1),
     KeyA :> Num("int64", 2),
     KeyA :> Slice,
     KeyA :> Map(KeyB :> Num("int64", 1))}

----------------------------------------------------------------------------
(* The Ruler: NewRuler builds it from a rule slice, Rule appends a rule    *)
(* with an empty comparator and a nil value, Test evaluates a document.    *)

NewRuler(rs) ==
    /\ rules = rs
    /\ call = [fn |-> "NewRuler"]
    /\ ret = NoRet
    /\ returned = FALSE

Init == \E rs \in RuleSeqs : NewRuler(rs)

Rule(path) ==
    /\ Len(rules) < MaxRules
    /\ rules' = Append(rules, [Comparator |-> "", Path |-> path, Value |-> Nil])
    /\ call' = [fn |-> "Rule", path |-> path]
    /\ ret' = NoRet
    /\ returned' = FALSE

Test(o) ==
    /\ call' = [fn |-> "Test", o |-> o]
    /\ ret' = TestResult(rules, o)
    /\ returned' = TRUE
    /\ UNCHANGED rules

Next ==
    \/ \E path \in TestPaths : Rule(path)
    \/ \E o \in TestDocs : Test(o)

Spec == Init /\ [][Next]_vars

----------------------------------------------------------------------------
(* The functions on their own: the inputs are drawn at the start and the   *)
(* one action applies the function to them.                                *)

InitCall(calls) ==
    /\ rules = <<>>
    /\ call \in calls
    /\ ret = NoRet
    /\ returned = FALSE

Return(r) ==
    /\ ~returned
    /\ ret' = r
    /\ returned' = TRUE
    /\ UNCHANGED <<rules, call>>

InitPluck == InitCall([fn : {"pluck"}, o : Docs, path : Paths])
CallPluck == call.fn = "pluck" /\ Return(pluck(call.o, call.path))
SpecPluck == InitPluck /\ [][CallPluck]_vars

InitInequality ==
    InitCall([fn : {"inequality"}, op : InequalityOps, actual : Values, expected : Values])
CallInequality ==
    call.fn = "inequality" /\ Return(inequality(call.op, call.actual, call.expected))
SpecInequality == InitInequality /\ [][CallInequality]_vars

InitCompare ==
    InitCall([fn : {"compare"},
              f : [Comparator : ComparatorTokens, Path : {KeyA}, Value : Values],
              actual : Values])
CallCompare == call.fn = "compare" /\ Return(compare(call.f, call.actual))
SpecCompare == InitCompare /\ [][CallCompare]_vars

----------------------------------------------------------------------------
(* Properties *)

TestCalled == returned /\ call.fn = "Test"
InequalityCalled == returned /\ call.fn = "inequality"
CompareCalled == returned /\ call.fn = "compare"
PluckCalled == returned /\ call.fn = "pluck"

True == Ret(TRUE, NoErr)
False == Ret(FALSE, NoErr)

(* the outcome of one rule evaluated on its own against a document *)
RuleOutcome(f, o) == TestResult(<<f>>, o)

(* rule f is evaluated on a present value, yields true and lets the loop go on *)
Passes(f, o) == ~IsNil(pluck(o, f.Path)) /\ RuleOutcome(f, o) = True

Unsupported(x) == x.kind \in {"map", "slice"}

(* the operator named by op applied to two integers *)
Native(op, x, y) ==
    CASE op = gt -> x > y
      [] op = gte -> x >= y
      [] op = lt -> x < y
      [] op = lte -> x <= y

(* C1: Test returns the outcome of the first rule, in sequence order,      *)
(* whose own outcome is an error or a definite false; the rules before it, *)
(* having produced true, do not stop the evaluation and the rules after it *)
(* have no influence.                                                      *)
C1_FirstFailingRuleDecides ==
    (TestCalled /\ \A i \in 1..Len(rules) : ~RuleOutcome(rules[i], call.o).panic)
        => \A i \in 1..Len(rules) :
               (/\ RuleOutcome(rules[i], call.o) # True
                /\ \A j \in 1..(i - 1) : RuleOutcome(rules[j], call.o) = True)
                   => ret = RuleOutcome(rules[i], call.o)

(* C2: for a single rule whose path resolves to absent, Test returns       *)
(* (false, nil) for exists, (true, nil) for nexists and a MissingProperty  *)
(* error with false for every other comparator token, whatever the         *)
(* expected value is.                                                      *)
C2_AbsentPathPolicy ==
    (TestCalled /\ Len(rules) = 1 /\ IsNil(pluck(call.o, rules[1].Path)))
        => ret = CASE rules[1].Comparator = "exists" -> False
                   [] rules[1].Comparator = "nexists" -> True
                   [] OTHER -> Ret(FALSE, ErrMissingProperty(rules[1].Path))

C2_Witness ==
    /\ TestCalled
    /\ Len(rules) = 1
    /\ IsNil(pluck(call.o, rules[1].Path))
    /\ rules[1].Comparator = "eq"
    /\ ret.err = ErrMissingProperty(rules[1].Path)
    /\ ~ret.b

(* C3: when the evaluation reaches a rule whose path resolves to a present *)
(* value and the value or the rule's expected value is a mapping or a      *)
(* list, Test returns (false, nil), whatever the comparator and whatever   *)
(* the later rules.                                                        *)
C3_UnsupportedAbortsWithFalse ==
    TestCalled
        => \A i \in 1..Len(rules) :
               (/\ \A j \in 1..(i - 1) : Passes(rules[j], call.o)
                /\ ~IsNil(pluck(call.o, rules[i].Path))
                /\ \/ Unsupported(pluck(call.o, rules[i].Path))
                   \/ Unsupported(rules[i].Value))
                   => ret = False

C3_Witness ==
    /\ TestCalled
    /\ Len(rules) = 2
    /\ Passes(rules[1], call.o)
    /\ ~IsNil(pluck(call.o, rules[2].Path))
    /\ ~Unsupported(pluck(call.o, rules[2].Path))
    /\ Unsupported(rules[2].Value)
    /\ rules[2].Comparator = "exists"
    /\ ret = False

(* C4: gt, gte, lt and lte on two integers of the same kind (the same      *)
(* signedness and width, for every width) return the operator applied to   *)
(* the two values with no error, and never crash.                          *)
C4_SameIntegerKindOrders ==
    (/\ InequalityCalled
     /\ call.actual.kind = call.expected.kind
     /\ call.actual.kind \in IntKinds \cup UintKinds)
        => ret = Ret(Native(call.op, call.actual.v, call.expected.v), NoErr)

(* C5: gt, gte, lt and lte on two values of different concrete kinds fail  *)
(* with the type mismatch error and false, whatever the values.            *)
C5_DifferentKindsMismatch ==
    (InequalityCalled /\ call.actual.kind # call.expected.kind)
        => ret = Ret(FALSE, ErrTypeMismatch)

C5_Witness ==
    /\ InequalityCalled
    /\ call.op = gt
    /\ call.actual = Num("int32", 2)
    /\ call.expected = Num("int64", 1)
    /\ ret = Ret(FALSE, ErrTypeMismatch)

(* C6: ncontains returns the error of contains, regex and matches with     *)
(* false when the pattern match fails with an error, and the negation of   *)
(* their boolean when it does not.                                         *)
C6_NcontainsNegatesOrPropagates ==
    (CompareCalled /\ call.f.Comparator = "ncontains")
        => \A alias \in {"contains", "regex", "matches"} :
               LET m == compare([call.f EXCEPT !.Comparator = alias], call.actual)
               IN  IF m.err # NoErr THEN ret = Ret(FALSE, m.err)
                   ELSE ret = Ret(~m.b, NoErr)

C6_Witness ==
    /\ CompareCalled
    /\ call.f.Comparator = "ncontains"
    /\ call.actual = Str(<<"1">>)
    /\ call.f.Value = Str(<<"(">>)
    /\ ret = Ret(FALSE, ErrBadRegexp)

(* C7: on a present actual value of a supported kind eq returns true with  *)
(* no error exactly when the actual and the expected value have the same   *)
(* kind and the same value, false with no error otherwise, and neq returns *)
(* the negation.                                                           *)
C7_StrictEquality ==
    (/\ CompareCalled
     /\ call.f.Comparator \in {"eq", "neq"}
     /\ ~IsNil(call.actual)
     /\ ~Unsupported(call.actual))
        => LET same == /\ call.actual.kind = call.f.Value.kind
                       /\ call.actual.v = call.f.Value.v
           IN  ret = Ret(IF call.f.Comparator = "eq" THEN same ELSE ~same, NoErr)

C7_Witness ==
    /\ CompareCalled
    /\ call.f.Comparator = "eq"
    /\ call.actual = Num("int64", 1)
    /\ call.f.Value = Num("float64", 1)
    /\ ret = False

(* C8: gt, gte, lt and lte on two texts return the operator applied to the *)
(* two parsed numbers when both texts parse as numbers, and (false, nil)   *)
(* when either does not; "9" gt "11" is false.                             *)
C8_NumericStringOrder ==
    (/\ InequalityCalled
     /\ call.actual.kind = "string"
     /\ call.expected.kind = "string")
        => LET a == ParseFloat(call.actual.v)
               e == ParseFloat(call.expected.v)
           IN  IF a.ok /\ e.ok
               THEN ret = Ret(Native(call.op, a.m * Pow10(e.f), e.m * Pow10(a.f)), NoErr)
               ELSE ret = False

C8_Witness ==
    /\ InequalityCalled
    /\ call.op = gt
    /\ call.actual = Str(<<"9">>)
    /\ call.expected = Str(<<"1", "1">>)
    /\ ret = False

(* C9: when every rule on its own yields (true, nil) against the document, *)
(* Test returns (true, nil) for the rules in every order; the empty rule   *)
(* set returns (true, nil).                                                *)
C9_AllPassingAnyOrder ==
    (TestCalled /\ \A i \in 1..Len(rules) : RuleOutcome(rules[i], call.o) = True)
        => /\ ret = True
           /\ \A p \in Permutations(1..Len(rules)) :
                  TestResult([i \in 1..Len(rules) |-> rules[p[i]]], call.o) = True

C9_Witness ==
    /\ TestCalled
    /\ Len(rules) = 2
    /\ rules[1] # rules[2]
    /\ \A i \in 1..Len(rules) : RuleOutcome(rules[i], call.o) = True
    /\ ret = True

(* C10: pluck walks the segments of the path split on '.': the node after  *)
(* segment i is the value under that key when the node before it is a      *)
(* mapping holding the key, and absent otherwise; the result is the node   *)
(* after the last segment, whatever its kind.                              *)
Walk(o, parts) ==
    LET N[i \in 0..Len(parts)] ==
            IF i = 0 THEN Map(o)
            ELSE IF N[i - 1].kind = "map" /\ parts[i] \in DOMAIN N[i - 1].v
                 THEN N[i - 1].v[parts[i]]
                 ELSE Nil
    IN  N[Len(parts)]

C10_PluckWalksSegments ==
    PluckCalled => ret = Walk(call.o, Split(call.path))

C10_Witness ==
    /\ PluckCalled
    /\ Len(Split(call.path)) = 3
    /\ ret = Slice

====
